---- MODULE Spec2Model ----
(***************************************************************************)
(* SkillentHub: a Flask application whose handlers run parameterised SQL   *)
(* through database/db.py execute_query.  The tables are modelled as sets  *)
(* of rows; every handler is translated from its route function.           *)
(*                                                                         *)
(* Spec           connections + chat handlers, one request per step.       *)
(* SpecNotif      notifications handlers, one request per step.            *)
(* SpecQuery      single execute_query calls.                              *)
(* SpecJobs       opportunities + admin job handlers, one request per step.*)
(* SpecEvents     event register/unregister, one query per step, two       *)
(*                requests in flight.                                      *)
(* SpecConnRace   send_request, one query per step, two requests in flight.*)
(* SpecApplyRace  apply, one query per step, two requests in flight.       *)
(* SpecPosts      post create/edit/delete, one request per step.           *)
(* SpecAdmin      admin job and event management, one request per step.    *)
(* SpecLogin      one browser session calling login_required routes.       *)
(* SpecAuth       signup and password reset, one request per step.         *)
(* SpecResetRace  reset_password, one query per step, two in flight.       *)
(* SpecSignupRace signup, one query per step, two requests in flight.      *)
(* SpecFeed       like_post and add_comment, one request per step.         *)
(* SpecChat       chat list and conversation pages, one request per step.  *)
(*                                                                         *)
(* Every query of a handler draws its own database outcome, as             *)
(* execute_query opens a connection per call.                              *)
(***************************************************************************)
EXTENDS Naturals, FiniteSets, Sequences, TLC

\* ---------------------------------------------------------------- bounds
MaxInserts == 3         \* rows INSERTed into connections, messages and
                        \* notifications together (their AUTO_INCREMENT total)
MaxJobRows == 3         \* rows INSERTed into opportunities and applications
                        \* together
MaxConnRows == 2        \* rows INSERTed into connections by interleaved requests
MaxEvents == 1          \* rows INSERTed into events
MaxRegs == 2            \* rows INSERTed into event_registrations
MaxAdminRows == 3       \* rows INSERTed into opportunities, applications, events
                        \* and event_registrations where admins manage them
MaxResets == 1          \* rows INSERTed into password_resets
MaxUsers == 2           \* rows INSERTed into users
MaxLikes == 2           \* rows INSERTed into likes
MaxFeedRows == 1        \* rows INSERTed into likes and comments
MaxPosts == 1           \* rows INSERTed into posts
MaxNotifs == 2          \* rows INSERTed into notifications where only the
                        \* notification handlers run

Users == {1, 2, 3}      \* users.id of the accounts that issue requests

\* ------------------------------------------------------- python values
\* Python's None and a non-None value v, as sets of at most one element.
None == {}
Some(v) == {v}

\* The outcome of one execute_query call: the database answers, raises
\* mysql.connector.Error, or get_db_connection() returns None.
DbOutcomes == {"ok", "error", "no_connection"}

\* What a handler can tell apart: the call returned its result, or None
\* ("error" stands for both failures, which execute_query maps to None).
Outcomes == {"ok", "error"}

VARIABLES
    connections,    \* rows [id, sender_id, receiver_id, status]
    nextConnId,     \* next AUTO_INCREMENT id of connections
    messages,       \* rows [id, sender_id, receiver_id]
    nextMsgId,
    notifications,  \* rows [id, user_id, type, is_read]
    nextNotifId,
    opportunities,  \* ids of the opportunities rows
    nextOppId,
    applications,   \* rows [id, user_id, opportunity_id, status, resume_file]
    nextAppId,
    files,          \* names of the files under UPLOAD_FOLDER/resumes
    events,         \* rows [id, max_participants]
    nextEventId,
    event_registrations,    \* rows [id, user_id, event_id]
    nextRegId,
    reqs,           \* requests in flight, one per worker thread: where each
                    \* handler stands and what it has read so far
    query,          \* the latest execute_query call and what it returned
    sentWhile,      \* history: ids of messages stored while an accepted
                    \* connection between sender and receiver existed
    last,           \* the latest request that got past its handler's checks
                    \* (reached a commit=True query), and what came of it
    posts,          \* rows [id, user_id, content, image_url]
    nextPostId,
    images,         \* names of the files under UPLOAD_FOLDER/posts
    resp,           \* the latest request of the handlers below and the
                    \* response it got: [op, user, id, code]
    users,          \* rows [id, email, password_hash, role]
    nextUserId,
    password_resets,    \* rows [id, email, otp_code, expired]; expired is
                    \* expires_at <= NOW()
    nextResetId,
    asked,          \* the ResetPasswordForm of the latest reset_password
                    \* request: [otp, new_password]
    uses,           \* history: for each password_resets id, how many times
                    \* a reset_password request found it and then changed
                    \* the password
    session,        \* the browser's session cookie: [user_id, role, reset_email],
                    \* each None while the key is absent
    conversations,  \* what chat_list rendered last: [user_id, unread_count]
                    \* for each partner listed
    seen,           \* history: <<user, id>> for each messages row that a
                    \* conversation page has shown to the user
    likes,          \* rows [id, user_id, post_id]
    nextLikeId,
    comments,       \* rows [id, user_id, post_id, content]
    nextCommentId

connVars == <<connections, nextConnId>>
chatVars == <<messages, nextMsgId, sentWhile>>
notifVars == <<notifications, nextNotifId>>
jobVars == <<opportunities, nextOppId, applications, nextAppId, files>>
eventVars == <<events, nextEventId, event_registrations, nextRegId>>
postVars == <<posts, nextPostId, images>>
authVars == <<users, nextUserId, session>>
resetVars == <<password_resets, nextResetId, asked, uses>>
feedVars == <<likes, nextLikeId, comments, nextCommentId>>
readVars == <<conversations, seen>>
siteVars == <<postVars, resp, authVars, resetVars, feedVars, readVars>>

vars == <<connVars, chatVars, notifVars, jobVars, eventVars, reqs, query, siteVars, last>>

\* the tables and variables a specification does not use stay as they start
ConnEmpty == connections = {} /\ nextConnId = 1
ChatEmpty == messages = {} /\ nextMsgId = 1 /\ sentWhile = {}
NotifEmpty == notifications = {} /\ nextNotifId = 1
JobsEmpty == /\ opportunities = {} /\ nextOppId = 1
             /\ applications = {} /\ nextAppId = 1 /\ files = {}
EventsEmpty == /\ events = {} /\ nextEventId = 1
               /\ event_registrations = {} /\ nextRegId = 1
NoReqs == <<>>
NoResp == [op |-> "none", user |-> 0, id |-> 0, code |-> ""]
PostsEmpty == posts = {} /\ nextPostId = 1 /\ images = {}
NoSession == [user_id |-> None, role |-> None, reset_email |-> None]
AuthEmpty == users = {} /\ nextUserId = 1 /\ session = NoSession
NoForm == [otp |-> "", new_password |-> ""]
ResetsEmpty == /\ password_resets = {} /\ nextResetId = 1 /\ asked = NoForm
               /\ uses = [i \in 1..MaxResets |-> 0]
FeedEmpty == likes = {} /\ nextLikeId = 1 /\ comments = {} /\ nextCommentId = 1
ReadEmpty == conversations = {} /\ seen = {}
SiteEmpty == /\ PostsEmpty /\ resp = NoResp /\ AuthEmpty /\ ResetsEmpty /\ FeedEmpty
             /\ ReadEmpty
NoQuery == [kind |-> "none", outcome |-> "ok", result |-> {}]

\* rows inserted so far, and whether a handler that inserts up to n rows fits
Inserted == (nextConnId - 1) + (nextMsgId - 1) + (nextNotifId - 1)
Room(n) == Inserted + n <= MaxInserts
ConnIds == 1..MaxInserts

\* ------------------------------------------------- database/db.py
\* execute_query(..., commit=True).  before: the table; after: the table as
\* the statement leaves it inside the transaction; lastrowid: cursor.lastrowid
\* (the new id of an INSERT, 0 for UPDATE and DELETE).
execute_query_norollback(outcome, before, after, lastrowid) ==
    IF outcome = "no_connection"
    THEN [table |-> before, result |-> None]
    ELSE [table |-> after, result |-> IF outcome = "error" THEN None ELSE Some(lastrowid)]

execute_query(outcome, before, after, lastrowid) ==
    IF outcome = "no_connection"
    THEN [table |-> before, result |-> None]
    ELSE LET pending == after IN                \* cursor.execute
         IF outcome = "error"
         THEN [table |-> before, result |-> None]          \* rollback
         ELSE [table |-> pending, result |-> Some(lastrowid)]  \* commit

\* execute_query(..., fetch_one=True): the results the call can return for a
\* query that matches `rows` (no ORDER BY: any matching row may come first).
fetch_one(outcome, rows) ==
    IF outcome # "ok" \/ rows = {} THEN {None} ELSE {Some(r) : r \in rows}

\* ------------------------------------------------- notifications/utils.py
create_notification_read(outcome, table, id, user_id, notification_type) ==
    execute_query(outcome, table,
        table \cup {[id |-> id, user_id |-> user_id,
                     type |-> notification_type, is_read |-> TRUE]},
        id)

\* create_notification: the INSERT and its result.
create_notification(outcome, table, id, user_id, notification_type) ==
    execute_query(outcome, table,
        table \cup {[id |-> id, user_id |-> user_id,
                     type |-> notification_type, is_read |-> FALSE]},
        id)

\* ------------------------------------------------- chat/routes.py
ConnectedRows_anystatus(conns, user_id, partner_id) ==
    {c \in conns : \/ (c.sender_id = user_id /\ c.receiver_id = partner_id)
                   \/ (c.sender_id = partner_id /\ c.receiver_id = user_id)}

\* rows the is_connected SELECT matches
ConnectedRows(conns, user_id, partner_id) ==
    {c \in conns : /\ c.status = "accepted"
                   /\ \/ (c.sender_id = user_id /\ c.receiver_id = partner_id)
                      \/ (c.sender_id = partner_id /\ c.receiver_id = user_id)}

is_connected(outcome, conns, user_id, partner_id) ==
    {r # None : r \in fetch_one(outcome, ConnectedRows(conns, user_id, partner_id))}

\* request.form.get('message', '').strip()
Messages == {" ", "hi"}
strip(s) == IF s = " " THEN "" ELSE s

NoReq == [op |-> "none", user |-> 0, action |-> "", notif |-> "none"]

\* op, session user and <action> of the request; notif: whether the handler
\* called create_notification and what it returned ("none": not called)
Req(op, user, action, notif) ==
    [op |-> op, user |-> user, action |-> action, notif |-> notif]

NotifFlag(r) == IF r.result = None THEN "failed" ELSE "ok"

send_message(user_id, partner_id, form_message) ==
    /\ UNCHANGED <<jobVars, eventVars, reqs, query, siteVars>>
    /\ Room(2)
    /\ UNCHANGED <<connections, nextConnId>>
    /\ \E o1 \in Outcomes :
       \E connected \in is_connected(o1, connections, user_id, partner_id) :
         IF partner_id = user_id \/ ~connected \/ strip(form_message) = ""
         THEN /\ UNCHANGED <<messages, nextMsgId, sentWhile, notifications, nextNotifId>>
              /\ UNCHANGED last
         ELSE \E o2 \in Outcomes :
              LET result == execute_query(o2, messages,
                       messages \cup {[id |-> nextMsgId, sender_id |-> user_id,
                                       receiver_id |-> partner_id]},
                       nextMsgId)
              IN /\ messages' = result.table
                 /\ IF result.result # None
                    THEN \E o3 \in Outcomes :
                         LET ntf == create_notification(o3, notifications, nextNotifId,
                                                        partner_id, "message")
                         IN /\ nextMsgId' = nextMsgId + 1
                            /\ sentWhile' =
                                 IF \E c \in connections :
                                      /\ c.status = "accepted"
                                      /\ {c.sender_id, c.receiver_id} = {user_id, partner_id}
                                 THEN sentWhile \cup {nextMsgId} ELSE sentWhile
                            /\ notifications' = ntf.table
                            /\ nextNotifId' = IF ntf.result # None
                                              THEN nextNotifId + 1 ELSE nextNotifId
                            /\ last' = Req("send_message", user_id, "", NotifFlag(ntf))
                    ELSE /\ UNCHANGED <<nextMsgId, sentWhile, notifications, nextNotifId>>
                         /\ last' = Req("send_message", user_id, "", "none")

\* ------------------------------------------------- connections/routes.py
PairRows(conns, a, b) ==
    {c \in conns : \/ (c.sender_id = a /\ c.receiver_id = b)
                   \/ (c.sender_id = b /\ c.receiver_id = a)}

RowsById(table, id) == {c \in table : c.id = id}

send_request(sender_id, user_id) ==
    /\ UNCHANGED <<jobVars, eventVars, reqs, query, siteVars>>
    /\ Room(2)
    /\ UNCHANGED <<messages, nextMsgId, sentWhile>>
    /\ \E o1 \in Outcomes :
       \E existing \in fetch_one(o1, PairRows(connections, sender_id, user_id)) :
         IF sender_id = user_id \/ existing # None
         THEN /\ UNCHANGED <<connections, nextConnId, notifications, nextNotifId>>
              /\ UNCHANGED last
         ELSE \E o2 \in Outcomes :
              LET result == execute_query(o2, connections,
                       connections \cup {[id |-> nextConnId, sender_id |-> sender_id,
                                          receiver_id |-> user_id, status |-> "pending"]},
                       nextConnId)
              IN /\ connections' = result.table
                 /\ IF result.result # None
                    THEN \E o3 \in Outcomes :
                         LET ntf == create_notification(o3, notifications, nextNotifId,
                                                        user_id, "connection")
                         IN /\ nextConnId' = nextConnId + 1
                            /\ notifications' = ntf.table
                            /\ nextNotifId' = IF ntf.result # None
                                              THEN nextNotifId + 1 ELSE nextNotifId
                            /\ last' = Req("send_request", sender_id, "", NotifFlag(ntf))
                    ELSE /\ UNCHANGED <<nextConnId, notifications, nextNotifId>>
                         /\ last' = Req("send_request", sender_id, "", "none")

Actions == {"accept", "reject", "block"}

SetStatus(table, id, status) ==
    {IF c.id = id THEN [c EXCEPT !.status = status] ELSE c : c \in table}

\* DELETE FROM connections WHERE id = %s; the mutation below keeps the row
\* and marks it instead
Declined_marked(table, id) == SetStatus(table, id, "rejected")

Declined(table, id) == table \ RowsById(table, id)

\* the checks respond_request makes on the fetched row before it writes
respond_allowed_any(connection, user_id, action) ==
    /\ action \in {"accept", "reject"}
    /\ connection # None

respond_allowed(connection, user_id, action) ==
    /\ action \in {"accept", "reject"}
    /\ connection # None
    /\ \A c \in connection : c.receiver_id = user_id /\ c.status = "pending"

respond_request(user_id, connection_id, action) ==
    /\ UNCHANGED <<jobVars, eventVars, reqs, query, siteVars>>
    /\ Room(1)
    /\ UNCHANGED <<nextConnId, messages, nextMsgId, sentWhile>>
    /\ \E o1 \in Outcomes :
       \E connection \in fetch_one(o1, RowsById(connections, connection_id)) :
         IF ~respond_allowed(connection, user_id, action)
         THEN /\ UNCHANGED <<connections, notifications, nextNotifId>>
              /\ UNCHANGED last
         ELSE \E o2 \in Outcomes :
              IF action = "accept"
              THEN \E o3 \in Outcomes :
                   LET upd == execute_query(o2, connections,
                                 SetStatus(connections, connection_id, "accepted"), 0)
                       row == CHOOSE c \in connection : TRUE
                       ntf == create_notification(o3, notifications, nextNotifId,
                                                  row.sender_id, "connection")
                   IN /\ connections' = upd.table
                      /\ notifications' = ntf.table
                      /\ nextNotifId' = IF ntf.result # None
                                        THEN nextNotifId + 1 ELSE nextNotifId
                      /\ last' = Req("respond_request", user_id, action, NotifFlag(ntf))
              ELSE LET del == execute_query(o2, connections,
                                 Declined(connections, connection_id), 0)
                   IN /\ connections' = del.table
                      /\ UNCHANGED <<notifications, nextNotifId>>
                      /\ last' = Req("respond_request", user_id, action, "none")

remove_connection(user_id, connection_id) ==
    /\ UNCHANGED <<jobVars, eventVars, reqs, query, siteVars>>
    /\ UNCHANGED <<nextConnId, messages, nextMsgId, sentWhile,
                   notifications, nextNotifId>>
    /\ \E o1 \in Outcomes :
       \E connection \in fetch_one(o1, RowsById(connections, connection_id)) :
         IF \/ connection = None
            \/ \E c \in connection : c.sender_id # user_id /\ c.receiver_id # user_id
         THEN /\ UNCHANGED connections
              /\ UNCHANGED last
         ELSE \E o2 \in Outcomes :
              /\ connections' = execute_query(o2, connections,
                       connections \ RowsById(connections, connection_id), 0).table
              /\ last' = Req("remove_connection", user_id, "", "none")

cancel_request(user_id, connection_id) ==
    /\ UNCHANGED <<jobVars, eventVars, reqs, query, siteVars>>
    /\ UNCHANGED <<nextConnId, messages, nextMsgId, sentWhile,
                   notifications, nextNotifId>>
    /\ \E o1 \in Outcomes :
       \E connection \in fetch_one(o1,
              {c \in RowsById(connections, connection_id) : c.status = "pending"}) :
         IF connection = None \/ \E c \in connection : c.sender_id # user_id
         THEN /\ UNCHANGED connections
              /\ UNCHANGED last
         ELSE \E o2 \in Outcomes :
              /\ connections' = execute_query(o2, connections,
                       connections \ RowsById(connections, connection_id), 0).table
              /\ last' = Req("cancel_request", user_id, "", "none")

\* ---------------------------------------------------------------- Spec
Init ==
    /\ connections = {} /\ nextConnId = 1
    /\ messages = {} /\ nextMsgId = 1
    /\ notifications = {} /\ nextNotifId = 1
    /\ sentWhile = {}
    /\ last = NoReq
    /\ JobsEmpty /\ EventsEmpty /\ reqs = NoReqs /\ query = NoQuery /\ SiteEmpty

Next ==
    \/ \E u, p \in Users, m \in Messages : send_message(u, p, m)
    \/ \E u, p \in Users : send_request(u, p)
    \/ \E u \in Users, c \in ConnIds, a \in Actions : respond_request(u, c, a)
    \/ \E u \in Users, c \in ConnIds : remove_connection(u, c)
    \/ \E u \in Users, c \in ConnIds : cancel_request(u, c)

Spec == Init /\ [][Next]_vars

\* ------------------------------------------------- notifications/routes.py
NotifTypes == {"message", "connection"}
NotifIds == 1..MaxNotifs

OwnRowsById_anyuser(table, id, user_id) ==
    {n \in table : n.id = id}

\* WHERE id = %s AND user_id = %s
OwnRowsById(table, id, user_id) ==
    {n \in table : n.id = id /\ n.user_id = user_id}

\* SET is_read = TRUE on `rows`
MarkRead(table, rows) ==
    (table \ rows) \cup {[n EXCEPT !.is_read = TRUE] : n \in rows}

\* notifications/utils.py mark_all_as_read: the UPDATE
mark_all_as_read(outcome, table, user_id) ==
    execute_query(outcome, table,
        MarkRead(table, {n \in table : n.user_id = user_id /\ ~n.is_read}), 0)

\* a handler of some other blueprint calls create_notification
notify(user_id, notification_type) ==
    /\ nextNotifId <= MaxNotifs
    /\ UNCHANGED <<connVars, chatVars, jobVars, eventVars, reqs, query, siteVars>>
    /\ \E o \in Outcomes :
       LET ntf == create_notification(o, notifications, nextNotifId,
                                      user_id, notification_type)
       IN /\ notifications' = ntf.table
          /\ nextNotifId' = IF ntf.result # None THEN nextNotifId + 1 ELSE nextNotifId
          /\ last' = Req("create_notification", 0, "", NotifFlag(ntf))

mark_as_read(user_id, notification_id) ==
    /\ UNCHANGED <<connVars, chatVars, jobVars, eventVars, reqs, query, siteVars, nextNotifId>>
    /\ \E o \in Outcomes :
       /\ notifications' = execute_query(o, notifications,
              MarkRead(notifications,
                       OwnRowsById(notifications, notification_id, user_id)), 0).table
       /\ last' = Req("mark_as_read", user_id, "", "none")

mark_all_read(user_id) ==
    /\ UNCHANGED <<connVars, chatVars, jobVars, eventVars, reqs, query, siteVars, nextNotifId>>
    /\ \E o \in Outcomes :
       /\ notifications' = mark_all_as_read(o, notifications, user_id).table
       /\ last' = Req("mark_all_read", user_id, "", "none")

delete_notification(user_id, notification_id) ==
    /\ UNCHANGED <<connVars, chatVars, jobVars, eventVars, reqs, query, siteVars, nextNotifId>>
    /\ \E o \in Outcomes :
       /\ notifications' = execute_query(o, notifications,
              notifications \ OwnRowsById(notifications, notification_id, user_id),
              0).table
       /\ last' = Req("delete_notification", user_id, "", "none")

clear_all(user_id) ==
    /\ UNCHANGED <<connVars, chatVars, jobVars, eventVars, reqs, query, siteVars, nextNotifId>>
    /\ \E o \in Outcomes :
       /\ notifications' = execute_query(o, notifications,
              {n \in notifications : n.user_id # user_id}, 0).table
       /\ last' = Req("clear_all", user_id, "", "none")

InitNotif ==
    /\ ConnEmpty /\ ChatEmpty /\ NotifEmpty /\ JobsEmpty /\ EventsEmpty
    /\ reqs = NoReqs /\ query = NoQuery /\ SiteEmpty /\ last = NoReq

NextNotif ==
    \/ \E u \in Users, t \in NotifTypes : notify(u, t)
    \/ \E u \in Users, n \in NotifIds : mark_as_read(u, n)
    \/ \E u \in Users : mark_all_read(u)
    \/ \E u \in Users, n \in NotifIds : delete_notification(u, n)
    \/ \E u \in Users : clear_all(u)

\* the notification handlers alone, with create_notification as the source of rows
SpecNotif == InitNotif /\ [][NextNotif]_vars

\* ------------------------------------------------- database/db.py, call by call
\* one execute_query(..., commit=True) call: the INSERT of create_notification,
\* the UPDATE of mark_as_read or the DELETE of delete_notification
QueryCommit(stmt, user_id, notification_id) ==
    /\ stmt = "INSERT" => nextNotifId <= MaxNotifs
    /\ UNCHANGED <<connVars, chatVars, jobVars, eventVars, reqs, last>>
    /\ UNCHANGED siteVars
    /\ \E o \in DbOutcomes :
       LET own == OwnRowsById(notifications, notification_id, user_id)
           r == CASE stmt = "INSERT" ->
                       create_notification(o, notifications, nextNotifId,
                                           user_id, "message")
                  [] stmt = "UPDATE" ->
                       execute_query(o, notifications, MarkRead(notifications, own), 0)
                  [] stmt = "DELETE" ->
                       execute_query(o, notifications, notifications \ own, 0)
       IN /\ notifications' = r.table
          /\ nextNotifId' = IF stmt = "INSERT" /\ r.result # None
                            THEN nextNotifId + 1 ELSE nextNotifId
          /\ query' = [kind |-> "commit", outcome |-> o, result |-> r.result]

\* one execute_query(..., fetch_one=True) call: get_unread_count's SELECT COUNT(*)
QueryFetchOne(user_id) ==
    /\ UNCHANGED <<connVars, chatVars, notifVars, jobVars, eventVars, reqs, last>>
    /\ UNCHANGED siteVars
    /\ \E o \in DbOutcomes :
       \E r \in fetch_one(o, {Cardinality({n \in notifications :
                                  n.user_id = user_id /\ ~n.is_read})}) :
          query' = [kind |-> "fetch_one", outcome |-> o, result |-> r]

InitQuery == InitNotif

NextQuery ==
    \/ \E stmt \in {"INSERT", "UPDATE", "DELETE"}, u \in Users, n \in NotifIds :
          QueryCommit(stmt, u, n)
    \/ \E u \in Users : QueryFetchOne(u)

SpecQuery == InitQuery /\ [][NextQuery]_vars

\* ------------------------------------------------- admin/routes.py (jobs)
JobRoom == (nextOppId - 1) + (nextAppId - 1) < MaxJobRows
JobIds == 1..MaxJobRows
AppIds == 1..MaxJobRows

\* session.get('role'): "" stands for the None of a session without a role
\* (nobody logged in, so no user_id either)
Roles == {"", "user", "admin"}

\* admin_required: a session without user_id is redirected to the login page,
\* any role but 'admin' is aborted with 403; the mutation below lets all in
admin_required_any(role) == TRUE

admin_required(role) == role = "admin"

add_job(role, form_valid) ==
    /\ JobRoom
    /\ UNCHANGED <<connVars, chatVars, notifVars, eventVars, reqs, query, siteVars>>
    /\ UNCHANGED <<applications, nextAppId, files>>
    /\ IF ~admin_required(role) \/ ~form_valid
       THEN UNCHANGED <<opportunities, nextOppId, last>>
       ELSE \E o \in Outcomes :
            LET result == execute_query(o, opportunities,
                                        opportunities \cup {nextOppId}, nextOppId)
            IN /\ opportunities' = result.table
               /\ nextOppId' = IF result.result # None THEN nextOppId + 1 ELSE nextOppId
               /\ last' = Req("add_job", 0, role, "none")

delete_job(role, job_id) ==
    /\ UNCHANGED <<connVars, chatVars, notifVars, eventVars, reqs, query, siteVars>>
    /\ UNCHANGED <<nextOppId, nextAppId, files>>
    /\ IF ~admin_required(role)
       THEN UNCHANGED <<opportunities, applications, last>>
       ELSE \E o1, o2 \in Outcomes :
            /\ applications' = execute_query(o1, applications,
                   {a \in applications : a.opportunity_id # job_id}, 0).table
            /\ opportunities' = execute_query(o2, opportunities,
                   opportunities \ {job_id}, 0).table
            /\ last' = Req("delete_job", 0, role, "none")

\* ------------------------------------------------- opportunities/routes.py
Times == {1, 2}         \* int(time.time()) as apply reads it
Applicants == {1, 2}    \* session['user_id'] of the users who apply

\* f"app_{user_id}_{id}_{timestamp}.pdf"
ResumeName(user_id, id, timestamp) == <<user_id, id, timestamp>>

\* rows of SELECT id FROM applications WHERE user_id = %s AND opportunity_id = %s
ApplicationsOf(table, user_id, id) ==
    {a \in table : a.user_id = user_id /\ a.opportunity_id = id}

apply(user_id, id, form_valid, timestamp) ==
    /\ JobRoom
    /\ UNCHANGED <<connVars, chatVars, eventVars, reqs, query, siteVars>>
    /\ UNCHANGED <<opportunities, nextOppId>>
    /\ \E o1, o2 \in Outcomes :
       \E opportunity \in fetch_one(o1, opportunities \cap {id}) :
       \E existing \in fetch_one(o2, ApplicationsOf(applications, user_id, id)) :
         IF opportunity = None \/ existing # None \/ ~form_valid
         THEN UNCHANGED <<applications, nextAppId, files, notifVars, last>>
         ELSE \E o3 \in Outcomes :
              LET filename == ResumeName(user_id, id, timestamp)
                  result == execute_query(o3, applications,
                       applications \cup {[id |-> nextAppId, user_id |-> user_id,
                                           opportunity_id |-> id, status |-> "pending",
                                           resume_file |-> filename]},
                       nextAppId)
              IN /\ applications' = result.table
                 /\ IF result.result # None
                    THEN \E o4 \in Outcomes :
                         LET ntf == create_notification(o4, notifications, nextNotifId,
                                                        user_id, "opportunity")
                         IN /\ files' = files \cup {filename}      \* resume.save
                            /\ nextAppId' = nextAppId + 1
                            /\ notifications' = ntf.table
                            /\ nextNotifId' = IF ntf.result # None
                                              THEN nextNotifId + 1 ELSE nextNotifId
                            /\ last' = Req("apply", user_id, "", NotifFlag(ntf))
                    ELSE /\ files' = files \ {filename}     \* saved, then os.remove
                         /\ UNCHANGED <<nextAppId, notifVars>>
                         /\ last' = Req("apply", user_id, "", "none")

OwnApplication_anyuser(table, application_id, user_id) ==
    {a \in table : a.id = application_id}

\* rows of SELECT * FROM applications WHERE id = %s AND user_id = %s
OwnApplication(table, application_id, user_id) ==
    {a \in table : a.id = application_id /\ a.user_id = user_id}

\* the status check of withdraw_application
withdrawable_any(application) == TRUE

withdrawable(application) == application.status = "pending"

withdraw_application(user_id, application_id) ==
    /\ UNCHANGED <<connVars, chatVars, notifVars, eventVars, reqs, query, siteVars>>
    /\ UNCHANGED <<opportunities, nextOppId, nextAppId>>
    /\ \E o1 \in Outcomes :
       \E fetched \in fetch_one(o1, OwnApplication(applications, application_id, user_id)) :
         IF fetched = None \/ \E application \in fetched : ~withdrawable(application)
         THEN UNCHANGED <<applications, files, last>>
         ELSE \E o2 \in Outcomes :
              LET application == CHOOSE a \in fetched : TRUE
              IN /\ files' = files \ {application.resume_file}      \* os.remove
                 /\ applications' = execute_query(o2, applications,
                        {a \in applications :
                            ~(a.id = application_id /\ a.user_id = user_id)}, 0).table
                 /\ last' = Req("withdraw_application", user_id, "", "none")

\* applications.status is read by withdraw_application and written by no
\* route: an administrator changes it in the database.
Reviewed == {"accepted"}

review_application(application_id, status) ==
    /\ UNCHANGED <<connVars, chatVars, notifVars, eventVars, reqs, query, siteVars>>
    /\ UNCHANGED <<opportunities, nextOppId, nextAppId, files>>
    /\ \E a \in applications :
         /\ a.id = application_id /\ a.status = "pending"
         /\ applications' = (applications \ {a}) \cup {[a EXCEPT !.status = status]}
    /\ last' = Req("review_application", 0, "", "none")

InitJobs == InitNotif

NextJobs ==
    \/ \E r \in Roles, v \in BOOLEAN : add_job(r, v)
    \/ \E r \in Roles, j \in JobIds : delete_job(r, j)
    \/ \E u \in Applicants, j \in JobIds, v \in BOOLEAN, t \in Times : apply(u, j, v, t)
    \/ \E u \in Applicants, a \in AppIds : withdraw_application(u, a)
    \/ \E a \in AppIds, st \in Reviewed : review_application(a, st)

\* opportunities and applications, one request per step
SpecJobs == InitJobs /\ [][NextJobs]_vars

\* ------------------------------------------------- requests in flight
\* The server handles requests concurrently and execute_query opens, commits
\* and closes its own connection on every call: the queries of two handlers
\* interleave query by query.  reqs[w] is the request worker w is handling.
Workers == {1, 2}
Idle == [pc |-> "idle", user |-> 0, id |-> 0, row |-> None]
Busy(pc, user, id, row) == [pc |-> pc, user |-> user, id |-> id, row |-> row]
AllIdle == [w \in Workers |-> Idle]
At(w, pc) == reqs # NoReqs /\ reqs[w].pc = pc
Goto(w, pc) == reqs' = [reqs EXCEPT ![w].pc = pc]
Done(w) == reqs' = [reqs EXCEPT ![w] = Idle]

\* ------------------------------------------------- admin/routes.py (events)
\* form.max_participants.data, a StringField: empty for unlimited
MaxTexts == {"", "1", "2", "abc"}
IsNumber(text) == text \in {"1", "2"}
int(text) == IF text = "1" THEN 1 ELSE 2

EventIds == 1..MaxEvents
Registrants == {1, 2}       \* session['user_id'] of the users who register

\* one INSERT: the handler is a single step of the database
add_event(role, form_valid, max_text) ==
    /\ nextEventId <= MaxEvents
    /\ UNCHANGED <<connVars, chatVars, notifVars, jobVars, query, siteVars, reqs>>
    /\ UNCHANGED <<event_registrations, nextRegId>>
    /\ IF ~admin_required(role) \/ ~form_valid \/ (max_text # "" /\ ~IsNumber(max_text))
       THEN UNCHANGED <<events, nextEventId, last>>
       ELSE \E o \in Outcomes :
            LET result == execute_query(o, events,
                    events \cup {[id |-> nextEventId,
                                  max_participants |->
                                     IF max_text = "" THEN None
                                     ELSE Some(int(max_text))]},
                    nextEventId)
            IN /\ events' = result.table
               /\ nextEventId' = IF result.result # None
                                 THEN nextEventId + 1 ELSE nextEventId
               /\ last' = Req("add_event", 0, role, "none")

delete_event(role, event_id) ==
    /\ UNCHANGED <<connVars, chatVars, notifVars, jobVars, query, siteVars, reqs>>
    /\ UNCHANGED <<nextEventId, nextRegId>>
    /\ IF ~admin_required(role)
       THEN UNCHANGED <<events, event_registrations, last>>
       ELSE \E o1, o2 \in Outcomes :
            /\ event_registrations' = execute_query(o1, event_registrations,
                   {r \in event_registrations : r.event_id # event_id}, 0).table
            /\ events' = execute_query(o2, events,
                   {e \in events : e.id # event_id}, 0).table
            /\ last' = Req("delete_event", 0, role, "none")

\* ------------------------------------------------- events/routes.py
RegistrationsOf(table, user_id, id) ==
    {r \in table : r.user_id = user_id /\ r.event_id = id}

\* SELECT COUNT(*) ... WHERE event_id = %s
RegCount(table, id) == Cardinality({r \in table : r.event_id = id})

\* if event.get('max_participants'): NULL and 0 are falsy
HasLimit(event) == event.max_participants # None /\ event.max_participants # Some(0)

\* reg_count['count'] >= event['max_participants']
is_full(count, event) == \E m \in event.max_participants : count >= m

notRegVars == <<connVars, chatVars, jobVars, query, siteVars, last>>

register_start(w, user_id, id) ==
    /\ At(w, "idle") /\ nextRegId <= MaxRegs
    /\ reqs' = [reqs EXCEPT ![w] = Busy("reg_event", user_id, id, None)]
    /\ UNCHANGED <<notRegVars, notifVars, eventVars>>

register_event(w) ==
    /\ At(w, "reg_event")
    /\ UNCHANGED <<notRegVars, notifVars, eventVars>>
    /\ \E o \in Outcomes :
       \E event \in fetch_one(o, {e \in events : e.id = reqs[w].id}) :
         IF event = None THEN Done(w)
         ELSE reqs' = [reqs EXCEPT ![w].pc = "reg_existing", ![w].row = event]

register_existing(w) ==
    /\ At(w, "reg_existing")
    /\ UNCHANGED <<notRegVars, notifVars, eventVars>>
    /\ \E o \in Outcomes :
       \E existing \in fetch_one(o, RegistrationsOf(event_registrations,
                                                    reqs[w].user, reqs[w].id)) :
         IF existing # None THEN Done(w)
         ELSE IF \E event \in reqs[w].row : HasLimit(event)
              THEN Goto(w, "reg_count")
              ELSE Goto(w, "reg_insert")

register_count(w) ==
    /\ At(w, "reg_count")
    /\ UNCHANGED <<notRegVars, notifVars, eventVars>>
    /\ \E o \in Outcomes :
       \E reg_count \in fetch_one(o, {RegCount(event_registrations, reqs[w].id)}) :
         IF \E count \in reg_count : \E event \in reqs[w].row : is_full(count, event)
         THEN Done(w)
         ELSE Goto(w, "reg_insert")

register_insert(w) ==
    /\ At(w, "reg_insert") /\ nextRegId <= MaxRegs
    /\ UNCHANGED <<notRegVars, notifVars, events, nextEventId>>
    /\ \E o \in Outcomes :
       LET result == execute_query(o, event_registrations,
                event_registrations \cup {[id |-> nextRegId, user_id |-> reqs[w].user,
                                           event_id |-> reqs[w].id]},
                nextRegId)
       IN /\ event_registrations' = result.table
          /\ IF result.result # None
             THEN nextRegId' = nextRegId + 1 /\ Goto(w, "reg_notify")
             ELSE UNCHANGED nextRegId /\ Done(w)

register_notify(w) ==
    /\ At(w, "reg_notify")
    /\ UNCHANGED <<notRegVars, eventVars>>
    /\ \E o \in Outcomes :
       LET ntf == create_notification(o, notifications, nextNotifId,
                                      reqs[w].user, "event")
       IN /\ notifications' = ntf.table
          /\ nextNotifId' = IF ntf.result # None THEN nextNotifId + 1 ELSE nextNotifId
          /\ Done(w)

unregister_start(w, user_id, id) ==
    /\ At(w, "idle")
    /\ reqs' = [reqs EXCEPT ![w] = Busy("unreg_existing", user_id, id, None)]
    /\ UNCHANGED <<notRegVars, notifVars, eventVars>>

unregister_existing(w) ==
    /\ At(w, "unreg_existing")
    /\ UNCHANGED <<notRegVars, notifVars, eventVars>>
    /\ \E o \in Outcomes :
       \E existing \in fetch_one(o, RegistrationsOf(event_registrations,
                                                    reqs[w].user, reqs[w].id)) :
         IF existing = None THEN Done(w) ELSE Goto(w, "unreg_delete")

unregister_delete(w) ==
    /\ At(w, "unreg_delete")
    /\ UNCHANGED <<notRegVars, notifVars, events, nextEventId, nextRegId>>
    /\ \E o \in Outcomes :
       /\ event_registrations' = execute_query(o, event_registrations,
              event_registrations
                \ RegistrationsOf(event_registrations, reqs[w].user, reqs[w].id),
              0).table
       /\ Done(w)

InitEvents ==
    /\ ConnEmpty /\ ChatEmpty /\ NotifEmpty /\ JobsEmpty /\ EventsEmpty
    /\ reqs = AllIdle /\ query = NoQuery /\ SiteEmpty /\ last = NoReq

NextEvents ==
    \/ \E r \in Roles, v \in BOOLEAN, t \in MaxTexts : add_event(r, v, t)
    \/ \E w \in Workers, u \in Registrants, e \in EventIds : register_start(w, u, e)
    \/ \E w \in Workers : register_event(w)
    \/ \E w \in Workers : register_existing(w)
    \/ \E w \in Workers : register_count(w)
    \/ \E w \in Workers : register_insert(w)
    \/ \E w \in Workers : register_notify(w)
    \/ \E w \in Workers, u \in Registrants, e \in EventIds : unregister_start(w, u, e)
    \/ \E w \in Workers : unregister_existing(w)
    \/ \E w \in Workers : unregister_delete(w)

\* event registration with the requests of two workers interleaved
SpecEvents == InitEvents /\ [][NextEvents]_vars

\* ------------------------------------------------- connections/routes.py,
\* send_request query by query
notConnRaceVars == <<chatVars, jobVars, eventVars, query, siteVars, last>>

send_request_start(w, sender_id, user_id) ==
    /\ At(w, "idle") /\ nextConnId <= MaxConnRows
    /\ UNCHANGED <<notConnRaceVars, connVars, notifVars>>
    /\ IF sender_id = user_id
       THEN UNCHANGED reqs
       ELSE reqs' = [reqs EXCEPT ![w] = Busy("sr_existing", sender_id, user_id, None)]

send_request_existing(w) ==
    /\ At(w, "sr_existing")
    /\ UNCHANGED <<notConnRaceVars, connVars, notifVars>>
    /\ \E o \in Outcomes :
       \E existing \in fetch_one(o, PairRows(connections, reqs[w].user, reqs[w].id)) :
         IF existing # None THEN Done(w) ELSE Goto(w, "sr_insert")

send_request_insert(w) ==
    /\ At(w, "sr_insert") /\ nextConnId <= MaxConnRows
    /\ UNCHANGED <<notConnRaceVars, notifVars>>
    /\ \E o \in Outcomes :
       LET result == execute_query(o, connections,
                connections \cup {[id |-> nextConnId, sender_id |-> reqs[w].user,
                                   receiver_id |-> reqs[w].id, status |-> "pending"]},
                nextConnId)
       IN /\ connections' = result.table
          /\ IF result.result # None
             THEN nextConnId' = nextConnId + 1 /\ Goto(w, "sr_notify")
             ELSE UNCHANGED nextConnId /\ Done(w)

send_request_notify(w) ==
    /\ At(w, "sr_notify")
    /\ UNCHANGED <<notConnRaceVars, connVars>>
    /\ \E o \in Outcomes :
       LET ntf == create_notification(o, notifications, nextNotifId,
                                      reqs[w].id, "connection")
       IN /\ notifications' = ntf.table
          /\ nextNotifId' = IF ntf.result # None THEN nextNotifId + 1 ELSE nextNotifId
          /\ Done(w)

InitConnRace == InitEvents

NextConnRace ==
    \/ \E w \in Workers, s \in Users, u \in Users : send_request_start(w, s, u)
    \/ \E w \in Workers : send_request_existing(w)
    \/ \E w \in Workers : send_request_insert(w)
    \/ \E w \in Workers : send_request_notify(w)

\* send_request with the requests of two workers interleaved
SpecConnRace == InitConnRace /\ [][NextConnRace]_vars

\* ------------------------------------------------- opportunities/routes.py,
\* apply query by query
notApplyVars == <<connVars, chatVars, eventVars, query, siteVars>>

apply_start(w, user_id, id) ==
    /\ At(w, "idle") /\ JobRoom
    /\ reqs' = [reqs EXCEPT ![w] = Busy("ap_opportunity", user_id, id, None)]
    /\ UNCHANGED <<notApplyVars, jobVars, notifVars, last>>

apply_opportunity(w) ==
    /\ At(w, "ap_opportunity")
    /\ UNCHANGED <<notApplyVars, jobVars, notifVars, last>>
    /\ \E o \in Outcomes :
       \E opportunity \in fetch_one(o, opportunities \cap {reqs[w].id}) :
         IF opportunity = None THEN Done(w) ELSE Goto(w, "ap_existing")

\* the SELECT of existing applications, then form.validate_on_submit()
apply_existing(w, form_valid) ==
    /\ At(w, "ap_existing")
    /\ UNCHANGED <<notApplyVars, jobVars, notifVars, last>>
    /\ \E o \in Outcomes :
       \E existing \in fetch_one(o, ApplicationsOf(applications,
                                                   reqs[w].user, reqs[w].id)) :
         IF existing # None \/ ~form_valid THEN Done(w) ELSE Goto(w, "ap_save")

\* resume.save(resume_path)
apply_save(w, timestamp) ==
    /\ At(w, "ap_save")
    /\ UNCHANGED <<notApplyVars, notifVars, last>>
    /\ UNCHANGED <<opportunities, nextOppId, applications, nextAppId>>
    /\ LET filename == ResumeName(reqs[w].user, reqs[w].id, timestamp)
       IN /\ files' = files \cup {filename}
          /\ reqs' = [reqs EXCEPT ![w].pc = "ap_insert", ![w].row = Some(filename)]

apply_insert(w) ==
    /\ At(w, "ap_insert") /\ JobRoom
    /\ UNCHANGED <<notApplyVars, notifVars, last>>
    /\ UNCHANGED <<opportunities, nextOppId, files>>
    /\ \E o \in Outcomes : \E filename \in reqs[w].row :
       LET result == execute_query(o, applications,
                applications \cup {[id |-> nextAppId, user_id |-> reqs[w].user,
                                    opportunity_id |-> reqs[w].id, status |-> "pending",
                                    resume_file |-> filename]},
                nextAppId)
       IN /\ applications' = result.table
          /\ IF result.result # None
             THEN nextAppId' = nextAppId + 1 /\ Goto(w, "ap_notify")
             ELSE UNCHANGED nextAppId /\ Goto(w, "ap_cleanup")

apply_notify(w) ==
    /\ At(w, "ap_notify")
    /\ UNCHANGED <<notApplyVars, jobVars, last>>
    /\ \E o \in Outcomes :
       LET ntf == create_notification(o, notifications, nextNotifId,
                                      reqs[w].user, "opportunity")
       IN /\ notifications' = ntf.table
          /\ nextNotifId' = IF ntf.result # None THEN nextNotifId + 1 ELSE nextNotifId
          /\ Done(w)

\* if os.path.exists(resume_path): os.remove(resume_path)
apply_cleanup(w) ==
    /\ At(w, "ap_cleanup")
    /\ UNCHANGED <<notApplyVars, notifVars, last>>
    /\ UNCHANGED <<opportunities, nextOppId, applications, nextAppId>>
    /\ files' = files \ reqs[w].row
    /\ Done(w)

InitApplyRace == InitEvents

NextApplyRace ==
    \/ \E r \in Roles, v \in BOOLEAN : add_job(r, v)
    \/ \E w \in Workers, u \in Applicants, j \in JobIds : apply_start(w, u, j)
    \/ \E w \in Workers : apply_opportunity(w)
    \/ \E w \in Workers, v \in BOOLEAN : apply_existing(w, v)
    \/ \E w \in Workers, t \in Times : apply_save(w, t)
    \/ \E w \in Workers : apply_insert(w)
    \/ \E w \in Workers : apply_notify(w)
    \/ \E w \in Workers : apply_cleanup(w)

\* apply with the requests of two workers interleaved
SpecApplyRace == InitApplyRace /\ [][NextApplyRace]_vars

\* ------------------------------------------------- admin/routes.py with the
\* handlers that fill the tables it manages, one request per step
register(user_id, id) ==
    /\ nextRegId <= MaxRegs
    /\ UNCHANGED <<connVars, chatVars, jobVars, query, siteVars, reqs>>
    /\ UNCHANGED <<events, nextEventId>>
    /\ \E o1 \in Outcomes : \E event \in fetch_one(o1, {e \in events : e.id = id}) :
       IF event = None
       THEN UNCHANGED <<event_registrations, nextRegId, notifVars, last>>
       ELSE \E o2 \in Outcomes :
            \E existing \in fetch_one(o2, RegistrationsOf(event_registrations,
                                                          user_id, id)) :
       IF existing # None
       THEN UNCHANGED <<event_registrations, nextRegId, notifVars, last>>
       ELSE \E o3 \in Outcomes :
            \E reg_count \in fetch_one(o3, {RegCount(event_registrations, id)}) :
       IF /\ \E e \in event : HasLimit(e)
          /\ \E count \in reg_count : \E e \in event : is_full(count, e)
       THEN UNCHANGED <<event_registrations, nextRegId, notifVars, last>>
       ELSE \E o4 \in Outcomes :
            LET result == execute_query(o4, event_registrations,
                     event_registrations \cup {[id |-> nextRegId, user_id |-> user_id,
                                                event_id |-> id]},
                     nextRegId)
            IN /\ event_registrations' = result.table
               /\ IF result.result = None
                  THEN /\ UNCHANGED <<nextRegId, notifVars>>
                       /\ last' = Req("register", user_id, "", "none")
                  ELSE /\ nextRegId' = nextRegId + 1
                       /\ \E o5 \in Outcomes :
                          LET ntf == create_notification(o5, notifications, nextNotifId,
                                                         user_id, "event")
                          IN /\ notifications' = ntf.table
                             /\ nextNotifId' = IF ntf.result # None
                                               THEN nextNotifId + 1 ELSE nextNotifId
                             /\ last' = Req("register", user_id, "", NotifFlag(ntf))

InitAdmin == InitNotif

\* ids still to hand out in the four managed tables
AdminRoom ==
    (nextOppId - 1) + (nextAppId - 1) + (nextEventId - 1) + (nextRegId - 1) < MaxAdminRows

NextAdmin ==
    \/ \E r \in Roles, v \in BOOLEAN : AdminRoom /\ add_job(r, v)
    \/ \E r \in Roles, j \in JobIds : delete_job(r, j)
    \/ \E r \in Roles, v \in BOOLEAN, t \in MaxTexts : AdminRoom /\ add_event(r, v, t)
    \/ \E r \in Roles, e \in EventIds : delete_event(r, e)
    \/ \E u \in Applicants, j \in JobIds, v \in BOOLEAN, t \in Times :
         AdminRoom /\ apply(u, j, v, t)
    \/ \E u \in Registrants, e \in EventIds : AdminRoom /\ register(u, e)

\* the admin handlers with apply and register, one request per step
SpecAdmin == InitAdmin /\ [][NextAdmin]_vars

\* ------------------------------------------------- posts/routes.py
Authors == {1, 2}
PostIds == 1..MaxPosts
Contents == {"a", "b"}

\* get_unique_filename: f"{prefix}{user_id}_{timestamp}{ext}"
get_unique_filename(user_id, timestamp) == <<"post_", user_id, timestamp>>

\* PostForm as submitted: whether it validates, its content, and the second
\* at which an uploaded image is saved (None: no image uploaded)
PostForms ==
    {[valid |-> FALSE, content |-> "a", image |-> None]}
    \cup {[valid |-> TRUE, content |-> c, image |-> i] :
             c \in Contents, i \in {None} \cup {Some(t) : t \in Times}}

\* save_post_image: the saved filename, or None if no file was uploaded
save_post_image(file, user_id) == {get_unique_filename(user_id, t) : t \in file}

Response(op, user, id, code) == [op |-> op, user |-> user, id |-> id, code |-> code]

\* delete_post_image: if filename: os.remove
delete_post_image(dir, filename) == dir \ filename

notPostVars == <<connVars, chatVars, notifVars, jobVars, eventVars, reqs, query, last,
                 authVars, resetVars, feedVars, readVars>>

create(user_id, form) ==
    /\ nextPostId <= MaxPosts
    /\ UNCHANGED notPostVars
    /\ IF ~form.valid
       THEN /\ UNCHANGED postVars
            /\ resp' = Response("create", user_id, 0, "200")
       ELSE LET image_filename == save_post_image(form.image, user_id)
            IN \E o \in Outcomes :
               LET result == execute_query(o, posts,
                        posts \cup {[id |-> nextPostId, user_id |-> user_id,
                                     content |-> form.content, image_url |-> image_filename]},
                        nextPostId)
               IN /\ images' = images \cup image_filename
                  /\ posts' = result.table
                  /\ nextPostId' = IF result.result # None
                                   THEN nextPostId + 1 ELSE nextPostId
                  /\ resp' = Response("create", user_id, 0,
                                      IF result.result # None THEN "302" ELSE "200")

\* the ownership check of edit and delete: post['user_id'] != user_id
is_owner_any(post, user_id) == TRUE

is_owner(post, user_id) == \A p \in post : p.user_id = user_id

edit(user_id, post_id, form) ==
    /\ UNCHANGED notPostVars
    /\ UNCHANGED nextPostId
    /\ \E o1 \in Outcomes : \E post \in fetch_one(o1, RowsById(posts, post_id)) :
       IF post = None
       THEN /\ UNCHANGED <<posts, images>>
            /\ resp' = Response("edit", user_id, post_id, "404")
       ELSE IF ~is_owner(post, user_id)
       THEN /\ UNCHANGED <<posts, images>>
            /\ resp' = Response("edit", user_id, post_id, "403")
       ELSE IF ~form.valid
       THEN /\ UNCHANGED <<posts, images>>
            /\ resp' = Response("edit", user_id, post_id, "200")
       ELSE \E p \in post : \E o2 \in Outcomes :
            LET image_filename == IF form.image # None
                                  THEN save_post_image(form.image, user_id)
                                  ELSE p.image_url
                result == execute_query(o2, posts,
                     {IF r.id = post_id
                      THEN [r EXCEPT !.content = form.content, !.image_url = image_filename]
                      ELSE r : r \in posts}, 0)
            IN /\ images' = IF form.image # None
                            THEN delete_post_image(images, p.image_url) \cup image_filename
                            ELSE images
               /\ posts' = result.table
               /\ resp' = Response("edit", user_id, post_id,
                                   IF result.result # None THEN "302" ELSE "200")

delete(user_id, post_id) ==
    /\ UNCHANGED notPostVars
    /\ UNCHANGED nextPostId
    /\ \E o1 \in Outcomes : \E post \in fetch_one(o1, RowsById(posts, post_id)) :
       IF post = None
       THEN /\ UNCHANGED <<posts, images>>
            /\ resp' = Response("delete", user_id, post_id, "302")
       ELSE IF ~is_owner(post, user_id)
       THEN /\ UNCHANGED <<posts, images>>
            /\ resp' = Response("delete", user_id, post_id, "403")
       ELSE \E p \in post : \E o2 \in Outcomes :
            LET result == execute_query(o2, posts,
                                        {r \in posts : r.id # post_id}, 0)
            IN /\ images' = delete_post_image(images, p.image_url)
               /\ posts' = result.table
               /\ resp' = Response("delete", user_id, post_id, "302")

InitPosts == InitNotif

NextPosts ==
    \/ \E u \in Authors, f \in PostForms : create(u, f)
    \/ \E u \in Authors, p \in PostIds, f \in PostForms : edit(u, p, f)
    \/ \E u \in Authors, p \in PostIds : delete(u, p)

\* the post handlers, one request per step
SpecPosts == InitPosts /\ [][NextPosts]_vars

\* ------------------------------------------------- auth/routes.py
\* form.email.data as typed, and .strip().lower() of it
EmailInputs == {"a@x.io", " A@X.io ", "b@x.io"}
strip_lower(email) == IF email = " A@X.io " THEN "a@x.io" ELSE email

Passwords == {"pw1", "pw2"}

\* werkzeug.security: the hash is checked against the password it was made from
generate_password_hash(password) == <<"pbkdf2", password>>
check_password_hash(pwhash, password) == pwhash = generate_password_hash(password)

\* rows of SELECT ... FROM users WHERE email = %s
UsersByEmail(table, email) == {u \in table : u.email = email}

notAuthVars == <<connVars, chatVars, notifVars, jobVars, eventVars, reqs, query, last,
                 postVars, feedVars, readVars>>
notResetVars == <<notAuthVars, nextUserId>>

signup(form_valid, form_email, password) ==
    /\ nextUserId <= MaxUsers
    /\ UNCHANGED <<notAuthVars, session, resetVars>>
    /\ IF ~form_valid
       THEN /\ UNCHANGED <<users, nextUserId>>
            /\ resp' = Response("signup", 0, 0, "200")
       ELSE LET email == strip_lower(form_email)
            IN \E o1 \in Outcomes :
               \E existing_user \in fetch_one(o1, UsersByEmail(users, email)) :
               IF existing_user # None
               THEN /\ UNCHANGED <<users, nextUserId>>
                    /\ resp' = Response("signup", 0, 0, "200")
               ELSE \E o2 \in Outcomes :
                    LET result == execute_query(o2, users,
                             users \cup {[id |-> nextUserId, email |-> email,
                                          password_hash |-> generate_password_hash(password),
                                          role |-> "user"]},
                             nextUserId)
                    IN /\ users' = result.table
                       /\ nextUserId' = IF result.result # None
                                        THEN nextUserId + 1 ELSE nextUserId
                       /\ resp' = Response("signup", 0, 0,
                                           IF result.result # None THEN "302" ELSE "200")

login(form_valid, form_email, password) ==
    /\ UNCHANGED <<notAuthVars, users, nextUserId, resetVars>>
    /\ IF session.user_id # None
       THEN /\ UNCHANGED session
            /\ resp' = Response("login", 0, 0, "302")
       ELSE IF ~form_valid
       THEN /\ UNCHANGED session
            /\ resp' = Response("login", 0, 0, "200")
       ELSE \E o \in Outcomes :
            \E user \in fetch_one(o, UsersByEmail(users, strip_lower(form_email))) :
            IF \E u \in user : check_password_hash(u.password_hash, password)
            THEN \E u \in user :
                 /\ session' = [session EXCEPT !.user_id = Some(u.id),
                                               !.role = Some(u.role)]
                 /\ resp' = Response("login", u.id, 0, "302")
            ELSE /\ UNCHANGED session
                 /\ resp' = Response("login", 0, 0, "200")

\* session.clear()
logout ==
    /\ UNCHANGED <<notAuthVars, users, nextUserId, resetVars>>
    /\ session' = NoSession
    /\ resp' = Response("logout", 0, 0, "302")

\* ------------------------------------------------- auth/routes.py, password reset
\* generate_otp: six random digits
Otps == {"111111", "222222"}
\* form.otp.data.strip() as submitted: an issued code or another one
OtpInputs == Otps \cup {"000000"}

\* rows of SELECT ... FROM password_resets
\*         WHERE email = %s AND otp_code = %s AND expires_at > NOW();
\* the mutation below leaves out the otp_code
otp_records_anycode(table, email, otp) ==
    {r \in table : r.email = email /\ ~r.expired}

otp_records(table, email, otp) ==
    {r \in table : r.email = email /\ r.otp_code = otp /\ ~r.expired}

forgot_password(form_valid, form_email, otp) ==
    /\ nextResetId <= MaxResets
    /\ UNCHANGED <<notResetVars, users, asked, uses>>
    /\ IF ~form_valid
       THEN /\ UNCHANGED <<password_resets, nextResetId, session>>
            /\ resp' = Response("forgot_password", 0, 0, "200")
       ELSE LET email == strip_lower(form_email)
            IN \E o1 \in Outcomes : \E user \in fetch_one(o1, UsersByEmail(users, email)) :
               IF user = None
               THEN /\ UNCHANGED <<password_resets, nextResetId, session>>
                    /\ resp' = Response("forgot_password", 0, 0, "200")
               ELSE \E o2, o3 \in Outcomes :
                    LET deleted == execute_query(o2, password_resets,
                                     {r \in password_resets : r.email # email}, 0).table
                        result == execute_query(o3, deleted,
                                     deleted \cup {[id |-> nextResetId, email |-> email,
                                                    otp_code |-> otp, expired |-> FALSE]},
                                     nextResetId)
                    IN /\ password_resets' = result.table
                       /\ IF result.result # None
                          THEN /\ nextResetId' = nextResetId + 1
                               /\ session' = [session EXCEPT !.reset_email = Some(email)]
                               /\ resp' = Response("forgot_password", 0, 0, "302")
                          ELSE /\ UNCHANGED <<nextResetId, session>>
                               /\ resp' = Response("forgot_password", 0, 0, "200")

\* UPDATE users SET password_hash = %s WHERE email = %s
SetPassword(table, email, password_hash) ==
    {IF u.email = email THEN [u EXCEPT !.password_hash = password_hash] ELSE u :
       u \in table}

reset_password(form_valid, form_otp, new_password) ==
    /\ UNCHANGED <<notResetVars, nextResetId>>
    /\ asked' = [otp |-> form_otp, new_password |-> new_password]
    /\ IF session.reset_email = None
       THEN /\ UNCHANGED <<users, password_resets, session, uses>>
            /\ resp' = Response("reset_password", 0, 0, "forgot")
       ELSE IF ~form_valid
       THEN /\ UNCHANGED <<users, password_resets, session, uses>>
            /\ resp' = Response("reset_password", 0, 0, "200")
       ELSE \E email \in session.reset_email : \E o1 \in Outcomes :
            \E otp_record \in fetch_one(o1, otp_records(password_resets, email, form_otp)) :
            IF otp_record = None
            THEN /\ UNCHANGED <<users, password_resets, session, uses>>
                 /\ resp' = Response("reset_password", 0, 0, "200")
            ELSE \E o2 \in Outcomes :
                 LET update_result == execute_query(o2, users,
                        SetPassword(users, email, generate_password_hash(new_password)), 0)
                 IN /\ users' = update_result.table
                    /\ IF update_result.result # None
                       THEN /\ \E r \in otp_record :
                               uses' = [uses EXCEPT ![r.id] = @ + 1]
                            /\ \E o3 \in Outcomes :
                               password_resets' = execute_query(o3, password_resets,
                                  {r \in password_resets : r.email # email}, 0).table
                            /\ session' = [session EXCEPT !.reset_email = None]
                            /\ resp' = Response("reset_password", 0, 0, "302")
                       ELSE /\ UNCHANGED <<password_resets, session, uses>>
                            /\ resp' = Response("reset_password", 0, 0, "200")

\* ten minutes pass: expires_at > NOW() stops holding for a record
expire(id) ==
    /\ \E r \in password_resets : r.id = id /\ ~r.expired
    /\ password_resets' = {IF r.id = id THEN [r EXCEPT !.expired = TRUE] ELSE r :
                             r \in password_resets}
    /\ resp' = Response("expire", 0, id, "")
    /\ UNCHANGED <<notResetVars, users, nextResetId, asked, uses, session>>

ResetIds == 1..MaxResets

InitAuth == InitNotif

NextAuth ==
    \/ \E v \in BOOLEAN, e \in EmailInputs : signup(v, e, "pw1")
    \/ \E v \in BOOLEAN, e \in EmailInputs, c \in Otps : forgot_password(v, e, c)
    \/ \E v \in BOOLEAN, c \in OtpInputs, p \in Passwords : reset_password(v, c, p)
    \/ \E i \in ResetIds : expire(i)
    \/ logout

\* signup and the password reset handlers, one request per step
SpecAuth == InitAuth /\ [][NextAuth]_vars

\* ------------------------------------------------- auth/routes.py,
\* reset_password query by query
\* a request carries its own copy of the session cookie and of the form
notResetRaceVars == <<connVars, chatVars, notifVars, jobVars, eventVars, query, last,
                      postVars, feedVars, readVars>>

ResetRequest(pc, email, form_otp, new_password) ==
    Busy(pc, email, [otp |-> form_otp, new_password |-> new_password], None)

reset_password_start(w, form_valid, form_otp, new_password) ==
    /\ At(w, "idle")
    /\ UNCHANGED <<notResetRaceVars, authVars, password_resets, nextResetId, uses>>
    /\ asked' = [otp |-> form_otp, new_password |-> new_password]
    /\ IF session.reset_email = None
       THEN /\ UNCHANGED reqs
            /\ resp' = Response("reset_password", 0, 0, "forgot")
       ELSE IF ~form_valid
       THEN /\ UNCHANGED reqs
            /\ resp' = Response("reset_password", 0, 0, "200")
       ELSE /\ \E email \in session.reset_email :
               reqs' = [reqs EXCEPT ![w] =
                          ResetRequest("rp_select", email, form_otp, new_password)]
            /\ UNCHANGED resp

reset_password_select(w) ==
    /\ At(w, "rp_select")
    /\ UNCHANGED <<notResetRaceVars, authVars>>
    /\ UNCHANGED <<password_resets, nextResetId, asked, uses>>
    /\ \E o \in Outcomes :
       \E otp_record \in fetch_one(o, otp_records(password_resets, reqs[w].user,
                                                  reqs[w].id.otp)) :
       IF otp_record = None
       THEN /\ Done(w)
            /\ resp' = Response("reset_password", 0, 0, "200")
       ELSE /\ reqs' = [reqs EXCEPT ![w].pc = "rp_update", ![w].row = otp_record]
            /\ UNCHANGED resp

reset_password_update(w) ==
    /\ At(w, "rp_update")
    /\ UNCHANGED <<notResetRaceVars, nextUserId, session>>
    /\ UNCHANGED <<password_resets, nextResetId, asked>>
    /\ \E o \in Outcomes :
       LET update_result == execute_query(o, users,
              SetPassword(users, reqs[w].user,
                          generate_password_hash(reqs[w].id.new_password)), 0)
       IN /\ users' = update_result.table
          /\ IF update_result.result # None
             THEN /\ \E r \in reqs[w].row : uses' = [uses EXCEPT ![r.id] = @ + 1]
                  /\ Goto(w, "rp_delete")
                  /\ UNCHANGED resp
             ELSE /\ UNCHANGED uses
                  /\ Done(w)
                  /\ resp' = Response("reset_password", 0, 0, "200")

\* DELETE FROM password_resets, session.pop('reset_email'), redirect to login
reset_password_delete(w) ==
    /\ At(w, "rp_delete")
    /\ UNCHANGED <<notResetRaceVars, users, nextUserId>>
    /\ UNCHANGED <<nextResetId, asked, uses>>
    /\ \E o \in Outcomes :
       password_resets' = execute_query(o, password_resets,
              {r \in password_resets : r.email # reqs[w].user}, 0).table
    /\ session' = [session EXCEPT !.reset_email = None]
    /\ resp' = Response("reset_password", 0, 0, "302")
    /\ Done(w)

\* signup and forgot_password are taken whole between the steps above
InitResetRace == InitEvents

NextResetRace ==
    \/ \E v \in BOOLEAN, e \in EmailInputs, p \in Passwords : signup(v, e, p)
    \/ \E v \in BOOLEAN, e \in EmailInputs, c \in Otps : forgot_password(v, e, c)
    \/ \E w \in Workers, v \in BOOLEAN, c \in OtpInputs, p \in Passwords :
         reset_password_start(w, v, c, p)
    \/ \E w \in Workers : reset_password_select(w)
    \/ \E w \in Workers : reset_password_update(w)
    \/ \E w \in Workers : reset_password_delete(w)

\* reset_password with the requests of two workers interleaved
SpecResetRace == InitResetRace /\ [][NextResetRace]_vars

\* ------------------------------------------------- auth/routes.py,
\* signup query by query
signup_start(w, form_valid, form_email, password) ==
    /\ At(w, "idle") /\ nextUserId <= MaxUsers
    /\ UNCHANGED <<notResetRaceVars, authVars, resetVars>>
    /\ IF ~form_valid
       THEN /\ UNCHANGED reqs
            /\ resp' = Response("signup", 0, 0, "200")
       ELSE /\ reqs' = [reqs EXCEPT ![w] =
                          Busy("su_existing", strip_lower(form_email), password, None)]
            /\ UNCHANGED resp

signup_existing(w) ==
    /\ At(w, "su_existing")
    /\ UNCHANGED <<notResetRaceVars, authVars, resetVars>>
    /\ \E o \in Outcomes :
       \E existing_user \in fetch_one(o, UsersByEmail(users, reqs[w].user)) :
       IF existing_user # None
       THEN /\ Done(w)
            /\ resp' = Response("signup", 0, 0, "200")
       ELSE /\ Goto(w, "su_insert")
            /\ UNCHANGED resp

signup_insert(w) ==
    /\ At(w, "su_insert") /\ nextUserId <= MaxUsers
    /\ UNCHANGED <<notResetRaceVars, session, resetVars>>
    /\ \E o \in Outcomes :
       LET result == execute_query(o, users,
                users \cup {[id |-> nextUserId, email |-> reqs[w].user,
                             password_hash |-> generate_password_hash(reqs[w].id),
                             role |-> "user"]},
                nextUserId)
       IN /\ users' = result.table
          /\ nextUserId' = IF result.result # None THEN nextUserId + 1 ELSE nextUserId
          /\ resp' = Response("signup", 0, 0,
                              IF result.result # None THEN "302" ELSE "200")
          /\ Done(w)

InitSignupRace == InitEvents

NextSignupRace ==
    \/ \E w \in Workers, v \in BOOLEAN, e \in EmailInputs, p \in Passwords :
         signup_start(w, v, e, p)
    \/ \E w \in Workers : signup_existing(w)
    \/ \E w \in Workers : signup_insert(w)

\* signup with the requests of two workers interleaved
SpecSignupRace == InitSignupRace /\ [][NextSignupRace]_vars

\* ------------------------------------------------- feed/routes.py
FeedRoom == (nextLikeId - 1) + (nextCommentId - 1) < MaxFeedRows

\* rows of SELECT * FROM likes WHERE user_id = %s AND post_id = %s
LikesOf(table, user_id, post_id) ==
    {l \in table : l.user_id = user_id /\ l.post_id = post_id}

notFeedVars == <<connVars, chatVars, notifVars, jobVars, eventVars, reqs, query, last,
                 postVars, authVars, resetVars, readVars>>

like_post(user_id, post_id) ==
    /\ UNCHANGED <<notFeedVars, comments, nextCommentId>>
    /\ resp' = Response("like_post", user_id, post_id, "302")
    /\ \E o1 \in Outcomes :
       \E existing_like \in fetch_one(o1, LikesOf(likes, user_id, post_id)) :
       \E o2 \in Outcomes :
       IF existing_like # None
       THEN /\ likes' = execute_query(o2, likes,
                            likes \ LikesOf(likes, user_id, post_id), 0).table
            /\ UNCHANGED nextLikeId
       ELSE /\ nextLikeId <= MaxLikes
            /\ LET result == execute_query(o2, likes,
                         likes \cup {[id |-> nextLikeId, user_id |-> user_id,
                                      post_id |-> post_id]}, nextLikeId)
               IN /\ likes' = result.table
                  /\ nextLikeId' = IF result.result # None
                                   THEN nextLikeId + 1 ELSE nextLikeId

\* request.form.get('content', '').strip()
Comments == {" ", "hi"}

add_comment(user_id, post_id, form_content) ==
    /\ FeedRoom
    /\ UNCHANGED <<notFeedVars, likes, nextLikeId>>
    /\ resp' = Response("add_comment", user_id, post_id, "302")
    /\ LET content == strip(form_content)
       IN IF content = ""
          THEN UNCHANGED <<comments, nextCommentId>>
          ELSE \E o \in Outcomes :
               LET result == execute_query(o, comments,
                        comments \cup {[id |-> nextCommentId, user_id |-> user_id,
                                        post_id |-> post_id, content |-> content]},
                        nextCommentId)
               IN /\ comments' = result.table
                  /\ nextCommentId' = IF result.result # None
                                      THEN nextCommentId + 1 ELSE nextCommentId

\* <int:post_id> of like_post, which does not look the post up
FeedPostIds == {1, 2}
Likers == Users

InitFeed == InitNotif

NextFeed ==
    \/ \E u \in Likers, p \in FeedPostIds : like_post(u, p)

\* like_post alone, one request per step
SpecFeed == InitFeed /\ [][NextFeed]_vars

\* ------------------------------------------------- login_required
\* 'user_id' in session; the mutation below lets every request in
login_required_any(sess) == TRUE

login_required(sess) == sess.user_id # None

\* flash('Please login to access this page.'); redirect(url_for('auth.login'))
redirect_to_login(op) ==
    /\ resp' = Response(op, 0, 0, "login")
    /\ UNCHANGED <<connVars, chatVars, notifVars, jobVars, eventVars, reqs, query, last>>
    /\ UNCHANGED <<postVars, authVars, resetVars, feedVars, readVars>>

\* user_id = session['user_id'] in a session without the key: KeyError
KeyError(op) ==
    /\ resp' = Response(op, 0, 0, "500")
    /\ UNCHANGED <<connVars, chatVars, notifVars, jobVars, eventVars, reqs, query, last>>
    /\ UNCHANGED <<postVars, authVars, resetVars, feedVars, readVars>>

\* POST /feed/like/<post_id> with the browser's session
request_like_post(post_id) ==
    IF ~login_required(session) THEN redirect_to_login("like_post")
    ELSE IF session.user_id = None THEN KeyError("like_post")
    ELSE \E user_id \in session.user_id : like_post(user_id, post_id)

\* POST /feed/comment/<post_id> with the browser's session
request_add_comment(post_id, form_content) ==
    IF ~login_required(session) THEN redirect_to_login("add_comment")
    ELSE IF session.user_id = None THEN KeyError("add_comment")
    ELSE \E user_id \in session.user_id : add_comment(user_id, post_id, form_content)

InitLogin == InitNotif

NextLogin ==
    \/ \E v \in BOOLEAN, e \in EmailInputs, p \in Passwords : signup(v, e, p)
    \/ \E v \in BOOLEAN, e \in EmailInputs, p \in Passwords : login(v, e, p)
    \/ logout
    \/ \E p \in PostIds : (login_required(session) => FeedRoom) /\ request_like_post(p)
    \/ \E p \in PostIds, c \in Comments : request_add_comment(p, c)

\* one browser signing up, logging in and out, and calling protected routes
SpecLogin == InitLogin /\ [][NextLogin]_vars

\* ------------------------------------------------- chat/routes.py, reading
notReadVars == <<connVars, chatVars, notifVars, jobVars, eventVars, reqs, query, last,
                 postVars, authVars, resetVars, feedVars>>

UserIds(table) == {u.id : u \in table}

\* rows of SELECT ... FROM users WHERE id = %s
UsersById(table, id) == {u \in table : u.id = id}

\* get_connected_users: the other side of every accepted connections row of
\* user_id whose two sides both have a users row (the INNER JOINs); None
\* when the query fails
get_connected_users(outcome, conns, table, user_id) ==
    IF outcome # "ok" THEN None
    ELSE {IF c.sender_id = user_id THEN c.receiver_id ELSE c.sender_id :
            c \in {d \in conns : /\ d.status = "accepted"
                                 /\ user_id \in {d.sender_id, d.receiver_id}
                                 /\ {d.sender_id, d.receiver_id} \subseteq UserIds(table)}}

\* SELECT COUNT(*) as count FROM messages WHERE sender_id = partner_id AND
\* receiver_id = user_id, then unread_count['count'] if unread_count else 0
unread_count(outcome, msgs, partner_id, user_id) ==
    IF outcome = "ok"
    THEN Cardinality({m \in msgs : m.sender_id = partner_id /\ m.receiver_id = user_id})
    ELSE 0

\* GET /chat/ : one entry per connected user.  The last_message query of each
\* entry only orders the list and fills the preview.
chat_list(user_id) ==
    /\ UNCHANGED <<notReadVars, seen>>
    /\ \E o1 \in Outcomes :
       LET connected_users == get_connected_users(o1, connections, users, user_id)
       IN \E os \in [connected_users -> Outcomes] :
          /\ conversations' =
               {[user_id |-> partner_id,
                 unread_count |-> unread_count(os[partner_id], messages,
                                               partner_id, user_id)] :
                  partner_id \in connected_users}
          /\ resp' = Response("chat_list", user_id, 0, "200")

\* rows of the conversation page's SELECT: the messages between the two
\* users whose sender has a users row (the INNER JOIN)
MessagesBetween(msgs, table, user_id, partner_id) ==
    {m \in msgs : /\ \/ (m.sender_id = user_id /\ m.receiver_id = partner_id)
                     \/ (m.sender_id = partner_id /\ m.receiver_id = user_id)
                  /\ m.sender_id \in UserIds(table)}

\* GET /chat/t/<partner_id> : the page shows the rows the SELECT returned
\* (messages or []); the handler writes nothing to the database.
conversation(user_id, partner_id) ==
    /\ UNCHANGED <<notReadVars, conversations>>
    /\ IF partner_id = user_id
       THEN /\ UNCHANGED seen
            /\ resp' = Response("conversation", user_id, partner_id, "302")
       ELSE \E o1 \in Outcomes :
            \E connected \in is_connected(o1, connections, user_id, partner_id) :
            IF ~connected
            THEN /\ UNCHANGED seen
                 /\ resp' = Response("conversation", user_id, partner_id, "302")
            ELSE \E o2 \in Outcomes :
                 \E partner \in fetch_one(o2, UsersById(users, partner_id)) :
                 IF partner = None
                 THEN /\ UNCHANGED seen
                      /\ resp' = Response("conversation", user_id, partner_id, "302")
                 ELSE \E o3 \in Outcomes :
                      LET shown == IF o3 = "ok"
                                   THEN MessagesBetween(messages, users,
                                                        user_id, partner_id)
                                   ELSE {}
                      IN /\ seen' = seen \cup {<<user_id, m.id>> : m \in shown}
                         /\ resp' = Response("conversation", user_id, partner_id, "200")

\* the accounts that sign up and then chat, and the addresses they sign up with
ChatUsers == 1..MaxUsers
ChatEmails == {"a@x.io", "b@x.io"}

InitChat == InitNotif

NextChat ==
    \/ \E e \in ChatEmails : signup(TRUE, e, "pw1")
    \/ \E u, p \in ChatUsers : send_request(u, p)
    \/ \E u \in ChatUsers, c \in ConnIds : respond_request(u, c, "accept")
    \/ \E u, p \in ChatUsers : send_message(u, p, "hi")
    \/ \E u, p \in ChatUsers : conversation(u, p)
    \/ \E u \in ChatUsers : chat_list(u)

\* two accounts that connect, write to each other, open the conversation
\* and open the chat list
SpecChat == InitChat /\ [][NextChat]_vars

Accepted(before, after) ==
    {c \in before : /\ c.status = "pending"
                    /\ \E d \in after : d.id = c.id /\ d.status = "accepted"}

NewNotifications(before, after, user_id, type) ==
    {n \in after \ before : n.user_id = user_id /\ n.type = type /\ ~n.is_read}

NotifHandlers == {"mark_as_read", "mark_all_read", "delete_notification", "clear_all"}

\* C9: a step of mark_as_read, mark_all_read, delete_notification or clear_all
\* changes no notification whose user_id is not the session's user: each such
\* row is in the table afterwards as it was, and none appears.
C9_NotificationsPerUser ==
    [][ last'.op \in NotifHandlers =>
          {n \in notifications : n.user_id # last'.user}
            = {n \in notifications' : n.user_id # last'.user}
      ]_vars

\* a user has marked or deleted while another user's unread notification stays
C9_Witness ==
    /\ last.op \in {"mark_as_read", "delete_notification"}
    /\ \E n \in notifications : n.user_id # last.user /\ ~n.is_read
    /\ \A n \in notifications : n.user_id = last.user => n.is_read

\* C10: an execute_query call that fails (database error, or no connection)
\* returns None and leaves the table as it was before the call, and a
\* commit=True call that succeeds returns a value that is not None.
C10_ExecuteQueryErrors ==
    [][ query' # query \/ notifications' # notifications =>
          /\ query'.outcome # "ok" =>
               query'.result = None /\ notifications' = notifications
          /\ (query'.kind = "commit" /\ query'.outcome = "ok") =>
               query'.result # None
      ]_vars

\* a commit=True query has failed on a table that holds rows
C10_Witness ==
    /\ query.kind = "commit" /\ query.outcome = "error" /\ query.result = None
    /\ notifications # {}

\* C7: a withdraw_application step removes only an application that belongs
\* to the session's user and is pending, and only that application's resume
\* file; it adds nothing. (A request for another user's, a missing or a
\* non-pending application changes neither applications nor files.)
C7_WithdrawOwnPendingOnly ==
    [][ (last'.op = "withdraw_application"
           /\ (applications' # applications \/ files' # files)) =>
          \E a \in applications :
             /\ a.user_id = last'.user /\ a.status = "pending"
             /\ applications' \subseteq applications
             /\ applications \ applications' \subseteq {a}
             /\ files' \subseteq files
             /\ files \ files' \subseteq {a.resume_file}
      ]_vars

\* one user's pending application is withdrawn with its file while another
\* user's reviewed application and its file are still there
C7_Witness ==
    /\ last.op = "withdraw_application"
    /\ nextAppId = 3 /\ Cardinality(applications) = 1 /\ Cardinality(files) = 1
    /\ \E a \in applications :
         a.status # "pending" /\ a.user_id # last.user /\ a.resume_file \in files

\* C3: for every event whose max_participants is set, the number of its
\* event_registrations rows does not exceed max_participants.
C3_CapacityNeverExceeded ==
    \A e \in events : \A m \in e.max_participants :
        RegCount(event_registrations, e.id) <= m

\* C6: no two event_registrations rows have the same (user_id, event_id).
C6_RegisteredAtMostOnce ==
    \A r1, r2 \in event_registrations :
        (r1.user_id = r2.user_id /\ r1.event_id = r2.event_id) => r1 = r2

SamePair(c1, c2) ==
    {c1.sender_id, c1.receiver_id} = {c2.sender_id, c2.receiver_id}

\* C4: at most one connections row exists for any unordered pair of users.
C4_OneRowPerPair ==
    \A c1, c2 \in connections : SamePair(c1, c2) => c1 = c2

\* C5: no two applications rows have the same (user_id, opportunity_id), every
\* row's opportunity exists when it is inserted, and rows are born pending.
C5_OneApplicationPerOpportunity ==
    \A a1, a2 \in applications :
        (a1.user_id = a2.user_id /\ a1.opportunity_id = a2.opportunity_id) => a1 = a2

AdminOps == {"add_job", "delete_job", "add_event", "delete_event"}

\* C12: every step that inserts or deletes an opportunities or events row, or
\* deletes applications or event_registrations rows, is an admin handler run
\* with session role 'admin'; add_job, add_event, delete_job and delete_event
\* requests with any other role, or with no session, change none of the four tables.
C12_AdminOnlyManagement ==
    [][ (\/ opportunities' # opportunities \/ events' # events
         \/ ~(applications \subseteq applications')
         \/ ~(event_registrations \subseteq event_registrations'))
        => (last'.op \in AdminOps /\ last'.action = "admin")
      ]_vars

\* an admin deleted an event that had a registration, and a job is posted
C12_Witness ==
    /\ last.op = "delete_event" /\ last.action = "admin"
    /\ events = {} /\ event_registrations = {} /\ nextRegId > 1
    /\ opportunities # {}

ProtectedOps == {"like_post", "add_comment"}

\* C13: a request to a login_required route from a session without user_id
\* is redirected to the login page and changes no table; this holds again
\* after logout, until a login succeeds.
C13_LoginRequired ==
    [][ (session.user_id = None /\ resp'.op \in ProtectedOps) =>
          /\ resp'.code = "login"
          /\ UNCHANGED <<connections, messages, notifications, likes, comments,
                         posts, applications, event_registrations>>
      ]_vars

\* after a like was stored and the session was cleared by logout, like_post
\* is redirected to the login page
C13_Witness ==
    /\ session = NoSession /\ likes # {}
    /\ resp.op = "like_post" /\ resp.code = "login"

\* C14: a reset_password step changes users or password_resets only when the
\* submitted OTP equals the otp_code of an unexpired password_resets record
\* for the session's reset_email; it then sets the password_hash of that
\* email's user and changes nothing else in users.
C14_ResetNeedsValidOtp ==
    [][ (resp'.op = "reset_password"
           /\ (users' # users \/ password_resets' # password_resets)) =>
          \E email \in session.reset_email :
             /\ \E r \in password_resets :
                   r.email = email /\ r.otp_code = asked'.otp /\ ~r.expired
             /\ users' \in {users, SetPassword(users, email,
                                      generate_password_hash(asked'.new_password))}
             /\ password_resets' \subseteq password_resets
      ]_vars

\* a reset with the issued OTP has changed the password of the user
C14_Witness ==
    /\ resp.op = "reset_password" /\ resp.code = "302"
    /\ password_resets = {} /\ session.reset_email = None
    /\ \E u \in users : /\ u.password_hash = generate_password_hash(asked.new_password)
                        /\ asked.new_password = "pw2"
    /\ \E u \in users : u.password_hash = generate_password_hash("pw1")

\* C15: one issued OTP changes the password at most once: no password_resets
\* record is found and then followed by a password UPDATE more than once.
C15_OtpUsedAtMostOnce ==
    \A i \in ResetIds : uses[i] <= 1

\* C16: no two users rows have the same email.
C16_UniqueEmail ==
    \A u1, u2 \in users : u1.email = u2.email => u1 = u2

\* C17: after every like_post the user has exactly one like or none on that
\* post: no user ever has two likes rows for one post.
C17_OneLikeOrNone ==
    \A u \in Likers, p \in FeedPostIds : Cardinality(LikesOf(likes, u, p)) <= 1

Unseen(user_id, partner_id) ==
    {m \in messages : /\ m.sender_id = partner_id /\ m.receiver_id = user_id
                      /\ <<user_id, m.id>> \notin seen}

\* C19: an unread_count that chat_list renders for a partner is 0 when
\* every message of that partner to the user has been shown to the user on
\* the conversation page (the user has read the conversation and nothing
\* new has come from the partner since).
C19_ZeroOnceRead ==
    [][ (resp'.op = "chat_list" /\ <<resp, conversations>>' # <<resp, conversations>>) =>
          \A c \in conversations' :
             Unseen(resp'.user, c.user_id) = {} => c.unread_count = 0
      ]_vars

====
